---------------------------- MODULE Spec2Model ----------------------------
(* Process/port lifecycle registry of matman-e2e-test:                     *)
(*   dwt/local-cache.ts  (registry kept in one YAML document),             *)
(*   util/yaml.ts, util/base.ts (retry poller), E2ERunner.ts.              *)
(* One Node.js process: synchronous functions are single steps, an async   *)
(* function is cut at each await that waits for an external command.       *)
EXTENDS Integers, Sequences, FiniteSets, TLC

(***************************************************************************)
(* Bounds of the model                                                     *)
(***************************************************************************)
\* API calls the main flow makes in one behaviour
MaxCalls == 3
\* last value of the clock (one unit = two hours)
MaxTime == 2

(***************************************************************************)
(* Input domains                                                           *)
(***************************************************************************)
\* run identifiers, in the key order yaml.safeDump (sortKeys: true) writes
RunIdSeq == <<"r1", "r2">>
RunIds == {RunIdSeq[i] : i \in 1..Len(RunIdSeq)}
Names == {"mockstar-start", "whistle-start"}
\* the saveUsedPid calls: a process id for each named command, and a second
\* one for a command that is run again
PidCalls == {<<"mockstar-start", 1>>, <<"whistle-start", 2>>,
             <<"mockstar-start", 3>>}
\* the saveUsedPort calls: the port of each named command
PortCalls == {<<"mockstar-start", 9420>>, <<"whistle-start", 9421>>}
Pids == {a[2] : a \in PidCalls}
Ports == {a[2] : a \in PortCalls}
\* the description arguments of the callers: E2ERunner.runByExec passes the
\* command line to saveUsedPid, and every saveUsedPort call leaves the
\* argument out ("" stands for an absent or empty argument)
PidDesc == "cmd"
PortDesc == ""

(***************************************************************************)
(* Data: CacheDataItem, CacheData. A pid or port of 0 is the absent        *)
(* (undefined) property: the code tests both with if (item.pid).           *)
(***************************************************************************)
Item(name, pid, port, description) ==
  [name |-> name, pid |-> pid, port |-> port, description |-> description]

\* no entry under a key of CacheData
NoEntry == [list |-> <<>>, t |-> -1]

\* the object {}
EmptyMap == [k \in RunIds |-> NoEntry]

\* a value an in-memory variable of type CacheData holds: null/undefined or a
\* map; raised: no value, the load threw an error to its caller
NullCache == [null |-> TRUE, m |-> EmptyMap, raised |-> FALSE]
Obj(m) == [null |-> FALSE, m |-> m, raised |-> FALSE]

\* why the document gives no store: the file is not there, it has no
\* content, or its content is not YAML
Unreadable == {"absent", "empty", "unparsable"}

\* 2 * 60 * 60 * 1000 ms, in the clock's unit of two hours
EXPIRE == 1

VARIABLES
  file,      \* the persisted document testAppData.yml
  now,       \* Date.now(), in units of two hours
  calls,     \* API calls made so far by the main flow
  pc,        \* main flow: "idle", or awaiting "clean" / "direct"
  cleans,    \* in-flight clean() / cleanTargetCacheItem() invocations
  prev,      \* summary of the main flow's previous API call
  ev,        \* what the last step did
  poll,      \* a checkAndWaitURLAvailable / checkAndWaitFileAvailable call
  scan,      \* a findAvailablePort call
  made,      \* the millisecond clock and the run identifiers made last
  flow,      \* the E2ERunner method in progress
  procs,     \* two processes that write the registry at the same time
  life       \* an E2ERunner from start() to stop()

vars == <<file, now, calls, pc, cleans, prev, ev, poll, scan, made, flow,
          procs, life>>

(***************************************************************************)
(* util/yaml.ts and the local-cache wrappers                               *)
(***************************************************************************)
\* yaml.getCache without the try/catch: the error of readFileSync or of
\* safeLoad reaches the caller
getCacheNoCatch(f) ==
  IF f.blank
  THEN IF f.why = "empty" THEN NullCache
       ELSE [NullCache EXCEPT !.raised = TRUE]
  ELSE Obj(f.m)

\* yaml.getCache: safeLoad of the file; an empty document loads as
\* undefined, and when readFileSync (no file) or safeLoad (no YAML) throws,
\* the error is caught and logged and null is returned
getCache(f) ==
  IF f.blank
  THEN CASE f.why = "empty" -> NullCache
         [] f.why = "absent" -> NullCache
         [] f.why = "unparsable" -> NullCache
  ELSE Obj(f.m)

\* yaml.saveCache that writes the document it is given, also for null
saveCacheOverwrite(obj, f) ==
  IF obj.null THEN [blank |-> TRUE, why |-> "empty", m |-> EmptyMap]
  ELSE [blank |-> FALSE, why |-> "", m |-> obj.m]

\* yaml.saveCache: a falsy object is logged and not written
saveCache(obj, f) ==
  IF obj.null THEN f ELSE [blank |-> FALSE, why |-> "", m |-> obj.m]

\* yaml.saveCache raises nothing: for a falsy object it logs and returns
saveCacheRaises(obj) == FALSE

\* const cacheData = {}: the loaded store is not used
OrEmptyFresh(c) == EmptyMap

\* getCache() || {}
OrEmpty(c) == IF c.null THEN EmptyMap ELSE c.m

(***************************************************************************)
(* saveUsedPid / saveUsedPort                                              *)
(***************************************************************************)
\* indexes of data.list.filter(item => item.name === name)
Matches(list, name) == {i \in 1..Len(list) : list[i].name = name}

\* const [item] = ...: the first match
FirstMatch(list, name) ==
  CHOOSE i \in Matches(list, name) : \A j \in Matches(list, name) : i <= j

\* the update of an existing record keeps the entry's t
saveUsedPidDataKeepT(data, name, pid, description, t) ==
  IF data # NoEntry
  THEN IF Matches(data.list, name) # {}
       THEN [list |-> [data.list EXCEPT ![FirstMatch(data.list, name)] =
                         [@ EXCEPT !.pid = pid, !.description = description]],
             t |-> data.t]
       ELSE [list |-> Append(data.list, Item(name, pid, 0, description)),
             t |-> t]
  ELSE [list |-> <<Item(name, pid, 0, description)>>, t |-> t]

\* the record found by name is replaced by a new one: its port is lost
saveUsedPidDataReplace(data, name, pid, description, t) ==
  IF data # NoEntry
  THEN IF Matches(data.list, name) # {}
       THEN [list |-> [data.list EXCEPT ![FirstMatch(data.list, name)] =
                         Item(name, pid, 0, description)],
             t |-> t]
       ELSE [list |-> Append(data.list, Item(name, pid, 0, description)),
             t |-> t]
  ELSE [list |-> <<Item(name, pid, 0, description)>>, t |-> t]

\* saveUsedPid without the lookup by name: the record is always appended
saveUsedPidDataAppend(data, name, pid, description, t) ==
  IF data # NoEntry
  THEN [list |-> Append(data.list, Item(name, pid, 0, description)), t |-> t]
  ELSE [list |-> <<Item(name, pid, 0, description)>>, t |-> t]

\* lines 260-280 of saveUsedPid: the new value of cacheData[seqId]
saveUsedPidData(data, name, pid, description, t) ==
  IF data # NoEntry
  THEN IF Matches(data.list, name) # {}
       THEN [list |-> [data.list EXCEPT ![FirstMatch(data.list, name)] =
                         [@ EXCEPT !.pid = pid, !.description = description]],
             t |-> t]
       ELSE [list |-> Append(data.list, Item(name, pid, 0, description)),
             t |-> t]
  ELSE [list |-> <<Item(name, pid, 0, description)>>, t |-> t]

\* saveUsedPort without the lookup by name: the record is always appended
saveUsedPortDataAppend(data, name, port, description, t) ==
  IF data # NoEntry
  THEN [list |-> Append(data.list, Item(name, 0, port, description)), t |-> t]
  ELSE [list |-> <<Item(name, 0, port, description)>>, t |-> t]

\* lines 211-231 of saveUsedPort: the new value of cacheData[seqId]
saveUsedPortData(data, name, port, description, t) ==
  IF data # NoEntry
  THEN IF Matches(data.list, name) # {}
       THEN [list |-> [data.list EXCEPT ![FirstMatch(data.list, name)] =
                         [@ EXCEPT !.port = port, !.description = description]],
             t |-> t]
       ELSE [list |-> Append(data.list, Item(name, 0, port, description)),
             t |-> t]
  ELSE [list |-> <<Item(name, 0, port, description)>>, t |-> t]

(***************************************************************************)
(* Bookkeeping records                                                     *)
(***************************************************************************)
NoPrev == [op |-> "none", name |-> "", id |-> "", dirty |-> FALSE]

\* the main flow's previous call, when it was made for the same run (and for
\* the same record name, if both calls name one) and no cleanup that runs in
\* the background has saved the store since; "none" otherwise
After(name, seqId) ==
  IF prev.id = seqId /\ ~prev.dirty /\
     (prev.name = name \/ prev.name = "" \/ name = "")
  THEN prev.op ELSE "none"

AllNone == [k \in RunIds |-> "none"]
AllEmpty == [k \in RunIds |-> {}]

\* one invocation of clean() or of cleanTargetCacheItem() called directly;
\* pidOs: how the kill command of killPids exited, pidLog: whether killPids
\* logged a failure, pidRes: how the promise of killPids settled
NewRec(seqId, direct, isNull, cacheData, after, t) ==
  [live |-> TRUE, seqId |-> seqId, direct |-> direct, null |-> isNull,
   stage |-> "own", loaded |-> cacheData, cache |-> cacheData,
   after |-> after, t0 |-> t, ts |-> -1, sel |-> {},
   entry |-> EmptyMap, phase |-> AllNone,
   pids |-> AllEmpty, ports |-> AllEmpty,
   triedPids |-> AllEmpty, triedPorts |-> AllEmpty,
   pidRes |-> AllNone, portRes |-> AllNone,
   pidOs |-> AllNone, pidLog |-> AllNone]

FreeRec ==
  [NewRec("", FALSE, FALSE, EmptyMap, "none", -1) EXCEPT !.live = FALSE]

Slots == 1..MaxCalls

\* pre: why the document gave no store when the step began ("" when it gave
\* one); was: the t of the run's entry then (-1 without entry); ports: the
\* result of getUsedPort, as a set, and result: the array itself; null:
\* saveCache was given null
NoEv == [op |-> "init", name |-> "", id |-> "", val |-> 0, after |-> "none",
         ended |-> {}, rec |-> FreeRec, fin |-> FALSE, pre |-> "",
         raised |-> FALSE, was |-> -1, ports |-> {}, null |-> FALSE,
         result |-> <<>>]

(***************************************************************************)
(* process-handler: killPids                                               *)
(***************************************************************************)
\* the failure of the kill command is logged and the promise is fulfilled
killPidsSwallow(ok) == [fulfilled |-> TRUE, logged |-> ~ok]

\* killPids(pids), lines 37-52: the promise of runByExec('kill -9 ...');
\* then: the result is handed on; catch: the error is logged and handed on
\* with Promise.reject(err)
killPids(ok) == [fulfilled |-> ok, logged |-> ~ok]

(***************************************************************************)
(* cleanTargetCacheItem                                                    *)
(***************************************************************************)
\* only the first record's pid is collected
CollectPidsFirst(list) == {list[i].pid : i \in {1} \cap (1..Len(list))} \ {0}

\* lines 92-103: the pids and ports of the entry's records
CollectPids(list) == {list[i].pid : i \in 1..Len(list)} \ {0}
CollectPorts(list) == {list[i].port : i \in 1..Len(list)} \ {0}

\* the save without the delete: the entry stays in the store
TargetFinishNoDelete(c, k, f) ==
  [c |-> [c EXCEPT !.phase[k] = "done"], file |-> saveCache(Obj(c.cache), f)]

\* every entry is deleted, not only the one of seqId
TargetFinishWipe(c, k, f) ==
  [c |-> [c EXCEPT !.cache = EmptyMap, !.phase[k] = "done"],
   file |-> saveCache(Obj(EmptyMap), f)]

\* lines 124-128: delete cacheData[seqId]; saveCache(cacheData)
TargetFinish(c, k, f) ==
  LET cache2 == [c.cache EXCEPT ![k] = NoEntry]
  IN [c |-> [c EXCEPT !.cache = cache2, !.phase[k] = "done"],
      file |-> saveCache(Obj(cache2), f)]

\* lines 114-122: await killPort(ports) when there are ports
TargetKillPorts(c, k, f) ==
  IF c.ports[k] # {}
  THEN [c |-> [c EXCEPT !.phase[k] = "ports", !.triedPorts[k] = c.ports[k]],
        file |-> f]
  ELSE TargetFinish(c, k, f)

\* lines 85-112: from the call to the first await
TargetStart(c, k, f) ==
  LET cacheItem == c.cache[k]
      has == cacheItem # NoEntry /\ Len(cacheItem.list) > 0
      pids == IF has THEN CollectPids(cacheItem.list) ELSE {}
      ports == IF has THEN CollectPorts(cacheItem.list) ELSE {}
      c1 == [c EXCEPT !.entry[k] = cacheItem, !.pids[k] = pids,
                      !.ports[k] = ports]
  IN IF pids # {}
     THEN [c |-> [c1 EXCEPT !.phase[k] = "pids", !.triedPids[k] = pids],
           file |-> f]
     ELSE TargetKillPorts(c1, k, f)

\* killPids without the try/catch: its rejection ends cleanTargetCacheItem
AfterKillPidsThrow(c, k, f, ok) ==
  IF ok THEN TargetKillPorts([c EXCEPT !.pidRes[k] = "ok"], k, f)
  ELSE [c |-> [c EXCEPT !.pidRes[k] = "fail", !.phase[k] = "failed"],
        file |-> f]

\* lines 107-111: killPids settled; a rejection is caught and logged
AfterKillPids(c, k, f, ok) ==
  TargetKillPorts([c EXCEPT !.pidRes[k] = IF ok THEN "ok" ELSE "fail"], k, f)

\* lines 116-120: killPort settled; a rejection is caught and logged
AfterKillPort(c, k, f, ok) ==
  TargetFinish([c EXCEPT !.portRes[k] = IF ok THEN "ok" ELSE "fail"], k, f)

(***************************************************************************)
(* clean                                                                   *)
(***************************************************************************)
\* the comparison with >= in place of >
ExpiredAtLeast(ts, t) == ts - t >= EXPIRE

\* line 156: nowTimestamp - cacheData[key].t > EXPIRE
Expired(ts, t) == ts - t > EXPIRE

\* lines 155-159: Object.keys(cacheData).forEach(async key => ...); every
\* callback runs up to its first await before the next one starts
RECURSIVE SweepFrom(_, _, _, _)
SweepFrom(i, keys, c, f) ==
  IF i > Len(RunIdSeq) THEN [c |-> c, file |-> f]
  ELSE LET key == RunIdSeq[i]
       IN IF key \in keys /\ Expired(c.ts, c.cache[key].t)
          THEN LET r == TargetStart([c EXCEPT !.sel = @ \cup {key}], key, f)
               IN SweepFrom(i + 1, keys, r.c, r.file)
          ELSE SweepFrom(i + 1, keys, c, f)

\* lines 152-160: the sweep, after which clean() resolves
CleanContinue(c, f, t) ==
  SweepFrom(1, {k \in RunIds : c.cache[k] # NoEntry},
            [c EXCEPT !.stage = "sweep", !.ts = t], f)

\* a kill command of the invocation is still running
Busy(c) == \E k \in RunIds : c.phase[k] \in {"pids", "ports"}

\* the invocation has nothing left to do
Complete(c) == c.stage = "sweep" /\ ~Busy(c)

FreeSlot == CHOOSE s \in Slots : ~cleans[s].live /\
                                 \A u \in Slots : ~cleans[u].live => s <= u

\* the awaited cleanTargetCacheItem has settled: clean() goes on with the
\* sweep (a direct call, or a rejection, ends the invocation instead)
Resume(r, t) ==
  IF r.c.stage = "own" /\ r.c.phase[r.c.seqId] \in {"done", "failed"}
  THEN IF r.c.direct \/ r.c.phase[r.c.seqId] = "failed"
       THEN [c |-> [r.c EXCEPT !.stage = "sweep"], file |-> r.file]
       ELSE CleanContinue(r.c, r.file, t)
  ELSE r

\* keys whose cleanTargetCacheItem ended in the step from c to d
Ended(c, d) ==
  {k \in RunIds : c.phase[k] \notin {"done", "failed"} /\
                  d.phase[k] \in {"done", "failed"}}

\* the step's effect on the store, the invocation table and the main flow
Land(s, c, r, op) ==
  /\ file' = r.file
  /\ cleans' = [cleans EXCEPT ![s] = IF Complete(r.c) THEN FreeRec ELSE r.c]
  /\ pc' = IF r.c.stage = "own"
           THEN (IF r.c.direct THEN "direct" ELSE "clean")
           ELSE IF c.stage = "own" THEN "idle" ELSE pc
  /\ ev' = [NoEv EXCEPT !.op = op, !.id = r.c.seqId, !.after = r.c.after,
                        !.ended = Ended(c, r.c), !.rec = r.c,
                        !.fin = Complete(r.c),
                        !.pre = IF op = "killDone" THEN "" ELSE file.why,
                        !.raised = IF op = "killDone" THEN FALSE
                                   ELSE getCache(file).raised]

(***************************************************************************)
(* Retry poller: checkAndWaitURLAvailable, checkAndWaitFileAvailable       *)
(***************************************************************************)
\* an option the caller left out (URLOrFileAvailableOptions: all optional)
Undef == -1

\* largest retryLimit a caller passes
MaxRetry == 2

\* if (!opts.retryLimit) opts.retryLimit = 10
DefaultRetryLimit == 10
\* if (!opts.timeout) opts.timeout = 1000
DefaultTimeout == 1000

RetryLimits == {Undef} \cup (0..MaxRetry)
Timeouts == {Undef, 0, 500}
Counts == {Undef, 0, 1}
Options == [retryLimit : RetryLimits, count : Counts, timeout : Timeouts]

\* !x of an optional number
Falsy(x) == x = Undef \/ x = 0

\* a message: its text and the numbers it holds (Undef: none)
NoMessage == [text |-> "", count |-> Undef, retryLimit |-> Undef]

\* line 146: logger.error(`retry max! ${opts.count}/${opts.retryLimit}`)
RetryMaxLine(opts) ==
  [text |-> "retry max!", count |-> opts.count,
   retryLimit |-> opts.retryLimit]

\* line 147: new Error('retry max')
RetryMaxError == [text |-> "retry max", count |-> Undef, retryLimit |-> Undef]

NoPoll == [pc |-> "idle", variant |-> "", given |-> [retryLimit |-> Undef,
           count |-> Undef, timeout |-> Undef],
           opts |-> [retryLimit |-> Undef, count |-> Undef, timeout |-> Undef],
           evals |-> 0, log |-> <<>>, err |-> NoMessage,
           logged |-> NoMessage]

\* the three defaults: lines 128-136 and 182-190
Normalise(o) ==
  [count |-> IF Falsy(o.count) THEN 0 ELSE o.count,
   retryLimit |-> IF Falsy(o.retryLimit) THEN DefaultRetryLimit
                                          ELSE o.retryLimit,
   timeout |-> IF Falsy(o.timeout) THEN DefaultTimeout ELSE o.timeout]

\* the promise of lines 153-163 without its catch: the 'retry max' of a
\* retry is not handed on, and the caller's promise stays pending
DecideNoCatch(p, opts, ok) ==
  IF ok THEN [p EXCEPT !.opts = opts, !.pc = "resolved"]
  ELSE IF opts.count >= opts.retryLimit
       THEN [p EXCEPT !.opts = opts, !.logged = RetryMaxLine(opts),
                      !.err = RetryMaxError,
                      !.pc = IF p.evals > 1 THEN "pending" ELSE "rejected"]
       ELSE [p EXCEPT !.opts = [opts EXCEPT !.count = opts.count + 1],
                      !.pc = "timer",
                      !.log = Append(@, [k |-> "wait", v |-> opts.timeout])]

\* the limit is compared with > : one more retry than retryLimit
DecideOneMore(p, opts, ok) ==
  IF ok THEN [p EXCEPT !.opts = opts, !.pc = "resolved"]
  ELSE IF opts.count > opts.retryLimit
       THEN [p EXCEPT !.opts = opts, !.pc = "rejected",
                      !.logged = RetryMaxLine(opts), !.err = RetryMaxError]
       ELSE [p EXCEPT !.opts = [opts EXCEPT !.count = opts.count + 1],
                      !.pc = "timer",
                      !.log = Append(@, [k |-> "wait", v |-> opts.timeout])]

\* what follows the evaluation, lines 138-163 and 194-216: return true,
\* log and reject with 'retry max', or count up and start the timer
Decide(p, opts, ok) ==
  IF ok THEN [p EXCEPT !.opts = opts, !.pc = "resolved"]
  ELSE IF opts.count >= opts.retryLimit
       THEN [p EXCEPT !.opts = opts, !.pc = "rejected",
                      !.logged = RetryMaxLine(opts), !.err = RetryMaxError]
       ELSE [p EXCEPT !.opts = [opts EXCEPT !.count = opts.count + 1],
                      !.pc = "timer",
                      !.log = Append(@, [k |-> "wait", v |-> opts.timeout])]

\* one invocation: axios.get(url) is awaited, then the defaults are set
checkAndWaitURLAvailable(p, ok) ==
  LET p1 == [p EXCEPT !.evals = @ + 1,
                      !.log = Append(@, [k |-> "eval",
                                         v |-> IF ok THEN 1 ELSE 0])]
  IN Decide(p1, Normalise(p1.opts), ok)

\* one invocation: the defaults are set, then fs.pathExists is awaited
checkAndWaitFileAvailable(p, ok) ==
  LET opts == Normalise(p.opts)
      p1 == [p EXCEPT !.evals = @ + 1,
                      !.log = Append(@, [k |-> "eval",
                                         v |-> IF ok THEN 1 ELSE 0])]
  IN Decide(p1, opts, ok)

(***************************************************************************)
(* Port allocator: E2ERunner.findAvailablePort over util/port              *)
(***************************************************************************)
\* findAvailablePort(port || 9420, skipList)
DefaultPort == 9420

\* candidates findAvailablePort tries before it gives up
MaxScan == 3

\* the port argument (0: left out) and the skip lists of the callers
StartPorts == {0, DefaultPort, DefaultPort + 1}
SkipLists == SUBSET (DefaultPort..(DefaultPort + 2))

NoScan == [pc |-> "idle", port |-> 0, skipList |-> {}, start |-> 0,
           skip |-> {}, cand |-> 0, occupied |-> {}, ret |-> 0]

\* the skip list is not handed on
RunnerFindAvailablePortNoSkip(port, skipList) ==
  [start |-> IF port = 0 THEN DefaultPort ELSE port, skip |-> {}]

\* E2ERunner.findAvailablePort: the arguments handed to util/port
RunnerFindAvailablePort(port, skipList) ==
  [start |-> IF port = 0 THEN DefaultPort ELSE port, skip |-> skipList]

\* util/port findAvailablePort, one candidate: a port of the skip list is
\* passed over, another one is probed and returned when it is free; the
\* scan fails once MaxScan candidates are used up
ScanStep(sc, isOccupied) ==
  IF sc.cand >= sc.start + MaxScan THEN [sc EXCEPT !.pc = "failed"]
  ELSE IF sc.cand \in sc.skip THEN [sc EXCEPT !.cand = @ + 1]
  ELSE IF isOccupied
       THEN [sc EXCEPT !.occupied = @ \cup {sc.cand}, !.cand = @ + 1]
       ELSE [sc EXCEPT !.pc = "returned", !.ret = sc.cand]

(***************************************************************************)
(* Run identifier: getSeqId (dwt/business.ts), getBase64 (util/base.ts),   *)
(* E2ERunner constructor. A string is a sequence of characters.            *)
(***************************************************************************)
\* longest output path, in bytes
MaxPathLen == 4
\* milliseconds the clock runs on from its first value
MaxMs == 2

\* bytes of an output path: "/" and "="
PathBytes == {47, 61}
Paths == UNION {[1..n -> PathBytes] : n \in 0..MaxPathLen}
\* Date.now() when the first identifier is made
StartTimes == {0, 9}

B64Chars == <<"A", "B", "C", "D", "E", "F", "G", "H", "I", "J", "K", "L", "M",
              "N", "O", "P", "Q", "R", "S", "T", "U", "V", "W", "X", "Y", "Z",
              "a", "b", "c", "d", "e", "f", "g", "h", "i", "j", "k", "l", "m",
              "n", "o", "p", "q", "r", "s", "t", "u", "v", "w", "x", "y", "z",
              "0", "1", "2", "3", "4", "5", "6", "7", "8", "9", "+", "/">>
DigitChars == <<"0", "1", "2", "3", "4", "5", "6", "7", "8", "9">>

\* buff.toString('base64'): three bytes give four characters, a last group
\* of one or two bytes is padded with '='
RECURSIVE ToBase64(_)
ToBase64(b) ==
  IF Len(b) = 0 THEN <<>>
  ELSE IF Len(b) = 1
       THEN <<B64Chars[b[1] \div 4 + 1], B64Chars[(b[1] % 4) * 16 + 1],
              "=", "=">>
  ELSE IF Len(b) = 2
       THEN <<B64Chars[b[1] \div 4 + 1],
              B64Chars[(b[1] % 4) * 16 + b[2] \div 16 + 1],
              B64Chars[(b[2] % 16) * 4 + 1], "=">>
  ELSE <<B64Chars[b[1] \div 4 + 1],
         B64Chars[(b[1] % 4) * 16 + b[2] \div 16 + 1],
         B64Chars[(b[2] % 16) * 4 + b[3] \div 64 + 1],
         B64Chars[(b[3] % 64) + 1]>> \o ToBase64(SubSeq(b, 4, Len(b)))

\* base64data.slice(-1 * length)
SliceLast(str, length) ==
  IF Len(str) <= length THEN str
  ELSE SubSeq(str, Len(str) - length + 1, Len(str))

\* getBase64(data, length); a length of 0 is falsy and keeps the whole string
getBase64(data, length) ==
  IF length # 0 THEN SliceLast(ToBase64(data), length) ELSE ToBase64(data)

\* replace('=', 'd') without the g flag: only the first '=' is replaced
ReplaceFirstEquals(str) ==
  [i \in 1..Len(str) |->
     IF str[i] = "=" /\ (\A j \in 1..(i - 1) : str[j] # "=") THEN "d"
     ELSE str[i]]

\* replace(/=/gi, 'd')
ReplaceEquals(str) ==
  [i \in 1..Len(str) |-> IF str[i] = "=" THEN "d" ELSE str[i]]

\* the decimal digits of Date.now() in the string concatenation
RECURSIVE Digits(_)
Digits(n) ==
  IF n < 10 THEN <<DigitChars[n + 1]>>
  ELSE Digits(n \div 10) \o <<DigitChars[(n % 10) + 1]>>

\* getSeqId(dwtPath, isDev) at the time t
getSeqId(dwtPath, isDev, t) ==
  IF isDev THEN <<"d", "e", "v">>
  ELSE ReplaceEquals(getBase64(dwtPath, 6)) \o Digits(t)

\* no identifier made yet
NoRunner == [by |-> "none", outputPath |-> <<>>, isDev |-> FALSE,
             seqId |-> <<>>, t |-> 0]
\* the clock, the parity of the number of identifiers made, the last one
NoMade == [ms |-> -1, turn |-> 0, last |-> NoRunner]

(***************************************************************************)
(* E2ERunner methods: runByExec, buildProject, startMockstar, startWhistle *)
(***************************************************************************)
\* the values a port variable of these methods holds: undefined, a string
\* (from process.env) or a number
Undefined == [kind |-> "undefined", str |-> <<>>, num |-> 0]
Str(str) == [kind |-> "string", str |-> str, num |-> 0]
Num(n) == [kind |-> "number", str |-> <<>>, num |-> n]

\* the result of parseInt for a string that does not start with a digit
NaN == -1

\* a value in a condition: '' , 0, NaN and undefined are falsy
Truthy(v) ==
  \/ v.kind = "string" /\ v.str # <<>>
  \/ v.kind = "number" /\ v.num # 0 /\ v.num # NaN

\* opts?.port || process.env[...]: the request before the override
OrElseSwapped(a, b) == IF Truthy(b) THEN b ELSE a

\* process.env[...] || opts?.port
OrElse(a, b) == IF Truthy(a) THEN a ELSE b

IsDigit(ch) == \E d \in 0..9 : DigitChars[d + 1] = ch
DigitValue(ch) == CHOOSE d \in 0..9 : DigitChars[d + 1] = ch

\* parseInt(str, 10): the value of the leading decimal digits
RECURSIVE ParseDigits(_, _, _)
ParseDigits(str, i, acc) ==
  IF i > Len(str) \/ ~IsDigit(str[i]) THEN acc
  ELSE ParseDigits(str, i + 1, acc * 10 + DigitValue(str[i]))

parseInt(str) ==
  IF Len(str) = 0 \/ ~IsDigit(str[1]) THEN NaN ELSE ParseDigits(str, 1, 0)

\* the port is used as it was given
ToNumberKeep(v) == v

\* if (typeof port !== 'number') port = parseInt(`${port}`, 10)
ToNumber(v) == IF v.kind # "number" THEN Num(parseInt(v.str)) ELSE v

Methods == {"buildProject", "startMockstar", "startWhistle"}

\* the name a method runs its command and records its port under
NameOf(method) ==
  CASE method = "buildProject" -> "project-build"
    [] method = "startMockstar" -> "mockstar-start"
    [] method = "startWhistle" -> "whistle-start"

\* the start port a method hands to findAvailablePort
FloorOf(method) ==
  CASE method = "buildProject" -> 3000
    [] method = "startMockstar" -> 9420
    [] method = "startWhistle" -> 9421

\* the process id of the command run under a name
PidOf(name) ==
  CASE name = "mockstar-start" -> 1
    [] name = "whistle-start" -> 2
    [] name = "whistle-use" -> 4
    [] name = "project-build" -> 5

\* the override of the method's environment variable, the port of its options
Envs == {Undefined, Str(<<"9", "4", "2", "2">>)}
OptsPorts == {Undefined, Num(9421)}

\* order: what the method has done so far: "kill" and "killed" (killPort
\* called, settled), "alloc" and "allocated" (findAvailablePort), "record"
\* (saveUsedPort), and the name of every command it has spawned
NoFlow == [pc |-> "idle", method |-> "", seqId |-> "", env |-> Undefined,
           optsPort |-> Undefined, usePort |-> FALSE, port |-> Undefined,
           cmdPort |-> Undefined, alloc |-> FALSE, claimed |-> {},
           killed |-> {}, cur |-> "", launched |-> {}, ret |-> Undefined,
           started |-> {}, order |-> <<>>]

\* lines 177-183: the truthy ports of a list's records, in their order
RECURSIVE PushPorts(_, _, _)
PushPorts(list, i, result) ==
  IF i > Len(list) THEN result
  ELSE PushPorts(list, i + 1,
                 IF list[i].port # 0 THEN Append(result, list[i].port)
                 ELSE result)

\* lines 176-185: Object.keys(cacheData).forEach over the entries
RECURSIVE PushEntries(_, _, _)
PushEntries(cacheData, i, result) ==
  IF i > Len(RunIdSeq) THEN result
  ELSE PushEntries(cacheData, i + 1,
                   PushPorts(cacheData[RunIdSeq[i]].list, 1, result))

\* the array is returned as it was filled
uniqNone(array) == array

\* _.uniq(array): the first occurrence of every value, in order
uniq(array) ==
  SelectSeq([i \in 1..Len(array) |->
               IF \E j \in 1..(i - 1) : array[j] = array[i] THEN 0
               ELSE array[i]],
            LAMBDA x : x # 0)

\* getUsedPort(), lines 168-188, the array it returns
getUsedPortArray(f) ==
  LET cacheData == getCache(f)
  IN IF cacheData.null THEN <<>>
     ELSE uniq(PushEntries(cacheData.m, 1, <<>>))

\* getUsedPort(), lines 168-188: the distinct ports of all records
getUsedPort(f) ==
  LET result == getUsedPortArray(f)
  IN {result[i] : i \in 1..Len(result)}

\* the document saveUsedPid / saveUsedPort leave
saveUsedPidTo(f, name, pid, seqId, describe, t) ==
  LET cacheData == OrEmpty(getCache(f))
      data == saveUsedPidData(cacheData[seqId], name, pid, describe, t)
  IN saveCache(Obj([cacheData EXCEPT ![seqId] = data]), f)

saveUsedPortTo(f, name, port, seqId, describe, t) ==
  LET cacheData == OrEmpty(getCache(f))
      data == saveUsedPortData(cacheData[seqId], name, port, describe, t)
  IN saveCache(Obj([cacheData EXCEPT ![seqId] = data]), f)

\* util/run-cmd runByExec: the promise resolves once the readiness predicate
\* holds of the command's output or the process exits (TRUE), or rejects
RunCmdOutcomes == BOOLEAN

\* E2ERunner.runByExec, lines 119-144: the command is launched and the
\* method waits for util/run-cmd to settle
runByExec(fl, name, f, t) ==
  [flow |-> [fl EXCEPT !.pc = "exec", !.cur = name,
                       !.launched = @ \cup {<<name, PidOf(name)>>},
                       !.order = Append(@, name)],
   file |-> f]

\* E2ERunner.runByExec, line 147: saveUsedPid once the wait has settled
runByExecSettled(fl, f, t) ==
  saveUsedPidTo(f, fl.cur, PidOf(fl.cur), fl.seqId, PidDesc, t)

\* the port is decided: buildProject records it (line 190), then every
\* method runs its command with it
PortDecided(fl, f, t) ==
  LET f1 == IF fl.method = "buildProject"
            THEN saveUsedPortTo(f, NameOf(fl.method), fl.port.num, fl.seqId,
                                PortDesc, t)
            ELSE f
      fl1 == IF fl.method = "buildProject"
             THEN [fl EXCEPT !.order = Append(@, "record")] ELSE fl
  IN runByExec([fl1 EXCEPT !.cmdPort = fl.port], NameOf(fl.method), f1, t)

(***************************************************************************)
(* Two processes, each an orchestrator of its own run, that call           *)
(* saveUsedPid / saveUsedPort on the one document. Inside a process the    *)
(* call is synchronous; between processes the read of the file (getCache)  *)
(* and its write (saveCache) are two steps.                                *)
(***************************************************************************)
Procs == {"p1", "p2"}
RunOf(p) == IF p = "p1" THEN "r1" ELSE "r2"

\* the calls a process makes
WriteOps ==
  {[kind |-> "pid", name |-> a[1], val |-> a[2]] : a \in PidCalls} \cup
  {[kind |-> "port", name |-> a[1], val |-> a[2]] : a \in PortCalls}
NoOp == [kind |-> "", name |-> "", val |-> 0]

NoProcs ==
  [st |-> [p \in Procs |-> [pc |-> "idle", op |-> NoOp,
                            cacheData |-> EmptyMap]],
   log |-> <<>>]

\* lines 258-280 (saveUsedPid) or 208-231 (saveUsedPort) of the call
WriteData(op, data, t) ==
  IF op.kind = "pid" THEN saveUsedPidData(data, op.name, op.val, PidDesc, t)
  ELSE saveUsedPortData(data, op.name, op.val, PortDesc, t)

(***************************************************************************)
(* E2ERunner.start and E2ERunner.stop                                      *)
(***************************************************************************)
\* the delay stop() hands to exit, in ms
ExitDelay == 2000

\* pc: where the runner is; recs: the pids and ports it recorded since
\* start() resolved, as <<kind, name, value>>; log: what stop() has done;
\* seen: the run's entry in the store that stop()'s clean loaded; timer: the
\* delay of the pending exit timer (-1: none)
NoLife == [pc |-> "new", seqId |-> "r1", skipExit |-> FALSE, recs |-> {},
           log |-> <<>>, seen |-> NoEntry, timer |-> -1]

(***************************************************************************)
(* Initial state and steps                                                 *)
(***************************************************************************)
Init ==
  /\ file = [blank |-> TRUE, why |-> "empty", m |-> EmptyMap]
  /\ now = 0
  /\ calls = 0
  /\ pc = "idle"
  /\ cleans = [s \in Slots |-> FreeRec]
  /\ prev = NoPrev
  /\ ev = NoEv
  /\ poll = NoPoll
  /\ scan = NoScan
  /\ made = NoMade
  /\ flow = NoFlow
  /\ procs = NoProcs
  /\ life = NoLife

\* the document the first call finds is not the empty file ensureFileSync
\* made: it was removed since, or its content is not YAML
FoundUnreadable(w) ==
  /\ calls = 0
  /\ ev = NoEv
  /\ file.blank /\ file.why = "empty"
  /\ w # "empty"
  /\ file' = [file EXCEPT !.why = w]
  /\ UNCHANGED <<now, calls, pc, cleans, prev, ev, poll, scan, made, flow,
                 procs,
                 life>>

\* time passes
Tick ==
  /\ now < MaxTime
  /\ now' = now + 1
  /\ ev' = [NoEv EXCEPT !.op = "tick"]
  /\ UNCHANGED <<file, calls, pc, cleans, prev, poll, scan, made, flow, procs,
                 life>>

\* saveUsedPid(name, pid, seqId, describe), lines 249-287: what the call
\* does to the registry
saveUsedPidCalled(name, pid, seqId, describe) ==
  /\ pc = "idle"
  /\ calls < MaxCalls
  /\ LET cacheData == OrEmpty(getCache(file))
         data == saveUsedPidData(cacheData[seqId], name, pid, describe, now)
     IN /\ file' = saveCache(Obj([cacheData EXCEPT ![seqId] = data]), file)
        /\ ev' = [NoEv EXCEPT !.op = "saveUsedPid", !.name = name,
                              !.id = seqId, !.val = pid,
                              !.after = After(name, seqId),
                              !.pre = file.why, !.was = cacheData[seqId].t,
                              !.raised = getCache(file).raised]
  /\ prev' = [op |-> "saveUsedPid", name |-> name, id |-> seqId,
              dirty |-> FALSE]
  /\ calls' = calls + 1
  /\ UNCHANGED <<now, pc, cleans, poll, scan, made, flow, procs>>

\* saveUsedPid called by a caller other than the E2ERunner of life
saveUsedPid(name, pid, seqId, describe) ==
  saveUsedPidCalled(name, pid, seqId, describe) /\ UNCHANGED life

\* saveUsedPort(name, port, seqId, describe), lines 199-238: what the call
\* does to the registry
saveUsedPortCalled(name, port, seqId, describe) ==
  /\ pc = "idle"
  /\ calls < MaxCalls
  /\ LET cacheData == OrEmpty(getCache(file))
         data == saveUsedPortData(cacheData[seqId], name, port, describe, now)
     IN /\ file' = saveCache(Obj([cacheData EXCEPT ![seqId] = data]), file)
        /\ ev' = [NoEv EXCEPT !.op = "saveUsedPort", !.name = name,
                              !.id = seqId, !.val = port,
                              !.after = After(name, seqId),
                              !.pre = file.why, !.was = cacheData[seqId].t,
                              !.raised = getCache(file).raised]
  /\ prev' = [op |-> "saveUsedPort", name |-> name, id |-> seqId,
              dirty |-> FALSE]
  /\ calls' = calls + 1
  /\ UNCHANGED <<now, pc, cleans, poll, scan, made, flow, procs>>

\* saveUsedPort called by a caller other than the E2ERunner of life
saveUsedPort(name, port, seqId, describe) ==
  saveUsedPortCalled(name, port, seqId, describe) /\ UNCHANGED life

\* clean(seqId), lines 138-160, up to its first await or to its end: what
\* the call does to the registry
cleanCalled(seqId) ==
  /\ pc = "idle"
  /\ calls < MaxCalls
  /\ LET cacheData == getCache(file)
         c0 == NewRec(seqId, FALSE, cacheData.null, cacheData.m,
                      After("", seqId), now)
         r == IF cacheData.null
              THEN [c |-> [c0 EXCEPT !.stage = "sweep"], file |-> file]
              ELSE IF cacheData.m[seqId] # NoEntry
                   THEN Resume(TargetStart(c0, seqId, file), now)
                   ELSE CleanContinue(c0, file, now)
     IN Land(FreeSlot, c0, r, "clean")
  /\ prev' = [op |-> "clean", name |-> "", id |-> seqId, dirty |-> FALSE]
  /\ calls' = calls + 1
  /\ UNCHANGED <<now, poll, scan, made, flow, procs>>

\* clean called by a caller other than the E2ERunner of life
clean(seqId) == cleanCalled(seqId) /\ UNCHANGED life

\* cleanTargetCacheItem(seqId, cache) called on the loaded store, or with
\* the second argument left out (cache = {}), up to its first await
cleanTargetCacheItem(seqId, omitted) ==
  /\ pc = "idle"
  /\ calls < MaxCalls
  /\ LET cacheData == IF omitted THEN EmptyMap ELSE OrEmpty(getCache(file))
         c0 == NewRec(seqId, TRUE, FALSE, cacheData, After("", seqId), now)
     IN Land(FreeSlot, c0, Resume(TargetStart(c0, seqId, file), now),
             "cleanTargetCacheItem")
  /\ prev' = [op |-> "cleanTargetCacheItem", name |-> "", id |-> seqId,
              dirty |-> FALSE]
  /\ calls' = calls + 1
  /\ UNCHANGED <<now, poll, scan, made, flow, procs,
                 life>>

\* getUsedPort(), lines 168-188
getUsedPortCall ==
  /\ pc = "idle"
  /\ calls < MaxCalls
  /\ ev' = [NoEv EXCEPT !.op = "getUsedPort", !.ports = getUsedPort(file),
                        !.result = getUsedPortArray(file),
                        !.pre = file.why, !.raised = getCache(file).raised]
  /\ calls' = calls + 1
  /\ UNCHANGED <<file, now, pc, cleans, prev, poll, scan, made, flow, procs,
                 life>>

\* saveCache(obj), lines 73-75, with null or with the store just loaded
saveCacheCall(isNull) ==
  /\ pc = "idle"
  /\ calls < MaxCalls
  /\ LET obj == IF isNull THEN NullCache ELSE Obj(OrEmpty(getCache(file)))
     IN /\ file' = saveCache(obj, file)
        /\ ev' = [NoEv EXCEPT !.op = "saveCache", !.null = isNull,
                              !.pre = file.why,
                              !.raised = saveCacheRaises(obj)]
  /\ calls' = calls + 1
  /\ UNCHANGED <<now, pc, cleans, prev, poll, scan, made, flow, procs,
                 life>>

\* the kill command a cleanTargetCacheItem awaits exits (ok) or fails; the
\* function runs on to its next await or to its end, and with it clean()
KillDone(s, k, ok) ==
  /\ cleans[s].live
  /\ cleans[s].phase[k] \in {"pids", "ports"}
  /\ LET c == cleans[s]
         settled == killPids(ok)
         c1 == [c EXCEPT !.pidOs[k] = IF ok THEN "ok" ELSE "fail",
                         !.pidLog[k] = IF settled.logged THEN "error"
                                       ELSE "debug"]
         r0 == IF c.phase[k] = "pids"
               THEN AfterKillPids(c1, k, file, settled.fulfilled)
               ELSE AfterKillPort(c, k, file, ok)
     IN /\ Land(s, c, Resume(r0, now), "killDone")
        /\ prev' = IF c.stage = "sweep" /\ r0.c.phase[k] = "done"
                   THEN [prev EXCEPT !.dirty = TRUE] ELSE prev
  /\ UNCHANGED <<now, calls, poll, scan, made, flow, procs,
                 life>>

Next ==
  \/ Tick
  \/ \E a \in PidCalls, seqId \in RunIds :
       saveUsedPid(a[1], a[2], seqId, PidDesc)
  \/ \E a \in PortCalls, seqId \in RunIds :
       saveUsedPort(a[1], a[2], seqId, PortDesc)
  \/ \E seqId \in RunIds : clean(seqId)
  \/ \E seqId \in RunIds, omitted \in BOOLEAN :
       cleanTargetCacheItem(seqId, omitted)
  \/ \E s \in Slots, k \in RunIds, ok \in BOOLEAN : KillDone(s, k, ok)
  \/ getUsedPortCall
  \/ \E isNull \in BOOLEAN : saveCacheCall(isNull)
  \/ \E w \in Unreadable : FoundUnreadable(w)

Spec == Init /\ [][Next]_vars

\* the registry's variables stay as they are in the other specifications
RegistryVars == <<file, now, calls, pc, cleans, prev, ev>>

\* a caller starts a poll with its options
PollCall(variant, opt) ==
  /\ poll.pc = "idle"
  /\ poll' = [NoPoll EXCEPT !.pc = "eval", !.variant = variant,
                            !.given = opt, !.opts = opt]
  /\ UNCHANGED <<RegistryVars, scan, made, flow, procs,
                 life>>

\* an invocation of checkAndWaitURLAvailable runs, the GET succeeding or not
PollEvalURL(ok) ==
  /\ poll.pc = "eval"
  /\ poll.variant = "url"
  /\ poll' = checkAndWaitURLAvailable(poll, ok)
  /\ UNCHANGED <<RegistryVars, scan, made, flow, procs,
                 life>>

\* an invocation of checkAndWaitFileAvailable runs, the file there or not
PollEvalFile(ok) ==
  /\ poll.pc = "eval"
  /\ poll.variant = "file"
  /\ poll' = checkAndWaitFileAvailable(poll, ok)
  /\ UNCHANGED <<RegistryVars, scan, made, flow, procs,
                 life>>

\* the timer fires: the function calls itself with the counted-up options
PollTimer ==
  /\ poll.pc = "timer"
  /\ poll' = [poll EXCEPT !.pc = "eval"]
  /\ UNCHANGED <<RegistryVars, scan, made, flow, procs,
                 life>>

NextPoll ==
  \/ \E variant \in {"url", "file"}, opt \in Options : PollCall(variant, opt)
  \/ \E ok \in BOOLEAN : PollEvalURL(ok)
  \/ \E ok \in BOOLEAN : PollEvalFile(ok)
  \/ PollTimer

SpecPoll == Init /\ [][NextPoll]_vars

\* every evaluation (the GET, the pathExists) completes and every timer fires
SpecPollFair ==
  /\ Init /\ [][NextPoll]_vars
  /\ WF_vars(\E ok \in BOOLEAN : PollEvalURL(ok))
  /\ WF_vars(\E ok \in BOOLEAN : PollEvalFile(ok))
  /\ WF_vars(PollTimer)

\* E2ERunner.findAvailablePort(port, skipList) is called
ScanCall(port, skipList) ==
  /\ scan.pc = "idle"
  /\ LET a == RunnerFindAvailablePort(port, skipList)
     IN scan' = [NoScan EXCEPT !.pc = "scan", !.port = port,
                               !.skipList = skipList, !.start = a.start,
                               !.skip = a.skip, !.cand = a.start]
  /\ UNCHANGED <<RegistryVars, poll, made, flow, procs,
                 life>>

\* the scan looks at its next candidate; the probe finds it occupied or free
ScanProbe(isOccupied) ==
  /\ scan.pc = "scan"
  /\ scan' = ScanStep(scan, isOccupied)
  /\ UNCHANGED <<RegistryVars, poll, made, flow, procs,
                 life>>

NextPort ==
  \/ \E port \in StartPorts, skipList \in SkipLists : ScanCall(port, skipList)
  \/ \E isOccupied \in BOOLEAN : ScanProbe(isOccupied)

SpecPort == Init /\ [][NextPort]_vars

\* the identifiers are made from the first clock value on
MadeStart(t) ==
  /\ made.ms = -1
  /\ made' = [made EXCEPT !.ms = t]
  /\ UNCHANGED <<RegistryVars, poll, scan, flow, procs,
                 life>>

\* a millisecond passes
MsTick ==
  /\ made.ms >= 0
  /\ \E t0 \in StartTimes : made.ms < t0 + MaxMs /\ made.ms >= t0
  /\ made' = [made EXCEPT !.ms = @ + 1]
  /\ UNCHANGED <<RegistryVars, poll, scan, flow, procs,
                 life>>

\* new E2ERunner(config), lines 52-89: an empty outputPath throws, else
\* this.seqId = getSeqId(this.outputPath, this.isDev)
E2ERunner(outputPath, isDev) ==
  /\ made.ms >= 0
  /\ outputPath # <<>>
  /\ made' = [made EXCEPT
       !.turn = 1 - @,
       !.last = [by |-> "constructor", outputPath |-> outputPath,
                 isDev |-> isDev, t |-> made.ms,
                 seqId |-> getSeqId(outputPath, isDev, made.ms)]]
  /\ UNCHANGED <<RegistryVars, poll, scan, flow, procs,
                 life>>

\* getSeqId called by itself
getSeqIdCall(dwtPath, isDev) ==
  /\ made.ms >= 0
  /\ made' = [made EXCEPT
       !.turn = 1 - @,
       !.last = [by |-> "getSeqId", outputPath |-> dwtPath,
                 isDev |-> isDev, t |-> made.ms,
                 seqId |-> getSeqId(dwtPath, isDev, made.ms)]]
  /\ UNCHANGED <<RegistryVars, poll, scan, flow, procs,
                 life>>

NextSeqId ==
  \/ \E t \in StartTimes : MadeStart(t)
  \/ MsTick
  \/ \E outputPath \in Paths, isDev \in BOOLEAN : E2ERunner(outputPath, isDev)
  \/ \E dwtPath \in Paths, isDev \in BOOLEAN : getSeqIdCall(dwtPath, isDev)

SpecSeqId == Init /\ [][NextSeqId]_vars

\* buildProject(cmd, opts), startMockstar(cwd, opts) or startWhistle(opts)
\* is called by the runner of a run, up to its first await
MethodCall(method, seqId, env, optsPort, usePort) ==
  /\ flow.pc \in {"idle", "returned", "rejected"}
  /\ seqId \notin flow.started
  /\ method # "buildProject" => ~usePort
  /\ LET p == OrElse(env, optsPort)
         fl == [NoFlow EXCEPT !.method = method, !.seqId = seqId,
                              !.env = env, !.optsPort = optsPort,
                              !.usePort = usePort,
                              !.started = flow.started \cup {seqId}]
     IN IF method = "buildProject" /\ ~usePort
        THEN LET r == runByExec([fl EXCEPT !.port = p], NameOf(method),
                                file, now)
             IN flow' = r.flow /\ file' = r.file /\ scan' = scan
        ELSE IF Truthy(p)
             THEN /\ flow' = [fl EXCEPT !.port = ToNumber(p),
                                        !.pc = "killPort",
                                        !.killed = {ToNumber(p).num},
                                        !.order = <<"kill">>]
                  /\ UNCHANGED <<file, scan>>
             ELSE LET a == RunnerFindAvailablePort(FloorOf(method), {})
                  IN /\ flow' = [fl EXCEPT !.pc = "alloc", !.alloc = TRUE,
                                           !.claimed = getUsedPort(file),
                                           !.order = <<"alloc">>]
                     /\ scan' = [NoScan EXCEPT !.pc = "scan",
                                   !.port = FloorOf(method),
                                   !.start = a.start, !.skip = a.skip,
                                   !.cand = a.start]
                     /\ file' = file
  /\ UNCHANGED <<now, calls, pc, cleans, prev, ev, poll, made, procs,
                 life>>

\* killPort(port) settles: a rejection ends the method
KillPortDone(ok) ==
  /\ flow.pc = "killPort"
  /\ IF ok
     THEN LET r == PortDecided([flow EXCEPT !.order = Append(@, "killed")],
                               file, now)
          IN flow' = r.flow /\ file' = r.file
     ELSE flow' = [flow EXCEPT !.pc = "rejected"] /\ file' = file
  /\ UNCHANGED <<now, calls, pc, cleans, prev, ev, poll, scan, made, procs,
                 life>>

\* findAvailablePort settles with a port, or rejects
AllocDone ==
  /\ flow.pc = "alloc"
  /\ scan.pc \in {"returned", "failed"}
  /\ IF scan.pc = "returned"
     THEN LET r == PortDecided([flow EXCEPT !.port = Num(scan.ret),
                                            !.order = Append(@, "allocated")],
                               file, now)
          IN flow' = r.flow /\ file' = r.file
     ELSE flow' = [flow EXCEPT !.pc = "rejected"] /\ file' = file
  /\ scan' = NoScan
  /\ UNCHANGED <<now, calls, pc, cleans, prev, ev, poll, made, procs,
                 life>>

\* the awaited util/run-cmd call settles: the pid is saved, and the method
\* goes on to its next await or returns the port
ExecSettled(resolved) ==
  /\ flow.pc = "exec"
  /\ IF ~resolved
     THEN flow' = [flow EXCEPT !.pc = "rejected"] /\ file' = file
     ELSE LET f1 == runByExecSettled(flow, file, now)
          IN IF flow.cur = "whistle-start"
             THEN /\ file' = saveUsedPortTo(f1, flow.cur, flow.port.num,
                                            flow.seqId, PortDesc, now)
                  /\ flow' = [flow EXCEPT !.pc = "check",
                                          !.order = Append(@, "record")]
             ELSE IF flow.cur = "mockstar-start"
             THEN /\ file' = saveUsedPortTo(f1, flow.cur, flow.port.num,
                                            flow.seqId, PortDesc, now)
                  /\ flow' = [flow EXCEPT !.pc = "returned",
                                          !.ret = flow.port,
                                          !.order = Append(@, "record")]
             ELSE /\ file' = f1
                  /\ flow' = [flow EXCEPT !.pc = "returned",
                                          !.ret = flow.port]
  /\ UNCHANGED <<now, calls, pc, cleans, prev, ev, poll, scan, made, procs,
                 life>>

\* startWhistle, lines 298-314: checkAndWaitURLAvailable settles; w2 use is
\* run when whistle answers
CheckDone(ok) ==
  /\ flow.pc = "check"
  /\ IF ok
     THEN LET r == runByExec(flow, "whistle-use", file, now)
          IN flow' = r.flow /\ file' = r.file
     ELSE flow' = [flow EXCEPT !.pc = "rejected"] /\ file' = file
  /\ UNCHANGED <<now, calls, pc, cleans, prev, ev, poll, scan, made, procs,
                 life>>

NextRunner ==
  \/ \E method \in Methods, seqId \in RunIds, env \in Envs,
        optsPort \in OptsPorts, usePort \in BOOLEAN :
       MethodCall(method, seqId, env, optsPort, usePort)
  \/ \E ok \in BOOLEAN : KillPortDone(ok)
  \/ \E isOccupied \in BOOLEAN : ScanProbe(isOccupied)
  \/ AllocDone
  \/ \E resolved \in RunCmdOutcomes : ExecSettled(resolved)
  \/ \E ok \in BOOLEAN : CheckDone(ok)

SpecRunner == Init /\ [][NextRunner]_vars

\* a process enters saveUsedPid / saveUsedPort: const cacheData =
\* getCache() || {} (lines 200, 250)
ProcLoad(p, op) ==
  /\ procs.st[p].pc = "idle"
  /\ procs' = [procs EXCEPT
       !.st[p] = [pc |-> "loaded", op |-> op,
                  cacheData |-> OrEmpty(getCache(file))],
       !.log = Append(@, <<"load", p>>)]
  /\ UNCHANGED <<RegistryVars, poll, scan, made, flow,
                 life>>

\* the process updates its copy and saves it (lines 208-237, 258-286)
ProcSave(p) ==
  /\ procs.st[p].pc = "loaded"
  /\ LET cacheData == procs.st[p].cacheData
         seqId == RunOf(p)
         data == WriteData(procs.st[p].op, cacheData[seqId], now)
     IN file' = saveCache(Obj([cacheData EXCEPT ![seqId] = data]), file)
  /\ procs' = [procs EXCEPT !.st[p].pc = "done",
                            !.log = Append(@, <<"save", p>>)]
  /\ UNCHANGED <<now, calls, pc, cleans, prev, ev, poll, scan, made, flow,
                 life>>

NextRace ==
  \/ \E p \in Procs, op \in WriteOps : ProcLoad(p, op)
  \/ \E p \in Procs : ProcSave(p)

SpecRace == Init /\ [][NextRace]_vars

\* the entry an earlier run of the identifier k left in the document: none,
\* one record with a pid, or one record with a pid and a port
LeftBy(k) ==
  LET name == IF k = "r1" THEN "mockstar-start" ELSE "whistle-start"
      pid == IF k = "r1" THEN 1 ELSE 2
      port == IF k = "r1" THEN 9420 ELSE 9421
  IN {NoEntry,
      [list |-> <<Item(name, pid, 0, PidDesc)>>, t |-> 0],
      [list |-> <<Item(name, pid, port, PidDesc)>>, t |-> 0]}

\* the stores earlier runs left behind
LeftStores == {m \in [RunIds -> UNION {LeftBy(k) : k \in RunIds}] :
                 \A k \in RunIds : m[k] \in LeftBy(k)}

\* the records of the runner, after one more under a name
RecsWith(recs, kind, name, val) ==
  {r \in recs : ~(r[1] = kind /\ r[2] = name)} \cup {<<kind, name, val>>}

\* stop() always goes on to exit
stopAfterCleanNoSkip(l) ==
  [l EXCEPT !.pc = "exit", !.timer = ExitDelay,
            !.log = @ \o <<"cleaned", "exit">>]

\* stop(), lines 393-400, once clean has resolved: exit(2000) unless
\* opts.skipExit, else the method returns
stopAfterClean(l) ==
  IF ~l.skipExit
  THEN [l EXCEPT !.pc = "exit", !.timer = ExitDelay,
                 !.log = @ \o <<"cleaned", "exit">>]
  ELSE [l EXCEPT !.pc = "resolved", !.log = @ \o <<"cleaned", "resolved">>]

\* the document holds what earlier runs recorded at time 0
LeftBehind(m) ==
  /\ life.pc = "new"
  /\ calls = 0 /\ now = 0
  /\ file.blank
  /\ file' = saveCache(Obj(m), file)
  /\ UNCHANGED <<now, calls, pc, cleans, prev, ev, poll, scan, made, flow,
                 procs, life>>

\* start(), lines 93-102: up to await getNpmRunner()
start ==
  /\ life.pc = "new"
  /\ life' = [life EXCEPT !.pc = "npm"]
  /\ UNCHANGED <<file, now, calls, pc, cleans, prev, ev, poll, scan, made,
                 flow, procs>>

\* start(), lines 104-108: getNpmRunner has settled; await this.clean()
startClean ==
  /\ life.pc = "npm"
  /\ cleanCalled(life.seqId)
  /\ life' = [life EXCEPT !.pc = "start-clean"]

\* the clean that start() awaits has resolved, and with it start()
started ==
  /\ life.pc = "start-clean"
  /\ pc = "idle"
  /\ life' = [life EXCEPT !.pc = "started"]
  /\ UNCHANGED <<file, now, calls, pc, cleans, prev, ev, poll, scan, made,
                 flow, procs>>

\* E2ERunner.runByExec, line 147: the pid of a command the runner has run
LifeSaveUsedPid(name, pid) ==
  /\ life.pc = "started"
  /\ saveUsedPidCalled(name, pid, life.seqId, PidDesc)
  /\ life' = [life EXCEPT !.recs = RecsWith(@, "pid", name, pid)]

\* startMockstar line 244, startWhistle line 295: the port of a command
LifeSaveUsedPort(name, port) ==
  /\ life.pc = "started"
  /\ saveUsedPortCalled(name, port, life.seqId, PortDesc)
  /\ life' = [life EXCEPT !.recs = RecsWith(@, "port", name, port)]

\* stop(opts), lines 382-387: outputJsonSync writes e2eRunner.json, then
\* await this.runBeforeStop()
stop(skipExit) ==
  /\ life.pc = "started"
  /\ life' = [life EXCEPT !.pc = "hook", !.skipExit = skipExit,
                          !.log = <<"snapshot", "hook">>]
  /\ UNCHANGED <<file, now, calls, pc, cleans, prev, ev, poll, scan, made,
                 flow, procs>>

\* stop(), line 390: runBeforeStop has resolved; await this.clean()
runBeforeStop ==
  /\ life.pc = "hook"
  /\ cleanCalled(life.seqId)
  /\ life' = [life EXCEPT !.pc = "stop-clean", !.log = Append(@, "clean"),
                          !.seen = OrEmpty(getCache(file))[life.seqId]]

\* the clean that stop() awaits has resolved
stopCleanResolved ==
  /\ life.pc = "stop-clean"
  /\ pc = "idle"
  /\ life' = stopAfterClean(life)
  /\ UNCHANGED <<file, now, calls, pc, cleans, prev, ev, poll, scan, made,
                 flow, procs>>

\* exit(delay), lines 60-69: the timer fires and process.exit() ends the
\* process, and with it every callback that was still to run
exit ==
  /\ life.pc = "exit"
  /\ life' = [life EXCEPT !.pc = "terminated", !.timer = -1,
                          !.log = Append(@, "terminated")]
  /\ cleans' = [s \in Slots |-> FreeRec]
  /\ UNCHANGED <<file, now, calls, pc, prev, ev, poll, scan, made, flow,
                 procs>>

\* a kill command settles while the process is alive
LifeKillDone(s, k, ok) ==
  /\ life.pc # "terminated"
  /\ KillDone(s, k, ok)

NextLife ==
  \/ \E m \in LeftStores : LeftBehind(m)
  \/ Tick
  \/ start
  \/ startClean
  \/ started
  \/ \E a \in PidCalls : LifeSaveUsedPid(a[1], a[2])
  \/ \E a \in PortCalls : LifeSaveUsedPort(a[1], a[2])
  \/ \E skipExit \in BOOLEAN : stop(skipExit)
  \/ runBeforeStop
  \/ stopCleanResolved
  \/ exit
  \/ \E s \in Slots, k \in RunIds, ok \in BOOLEAN : LifeKillDone(s, k, ok)

SpecLife == Init /\ [][NextLife]_vars

\* one runner on a store that holds nothing of earlier runs
NextStop ==
  \/ start
  \/ startClean
  \/ started
  \/ \E a \in PidCalls : LifeSaveUsedPid(a[1], a[2])
  \/ \E a \in PortCalls : LifeSaveUsedPort(a[1], a[2])
  \/ \E skipExit \in BOOLEAN : stop(skipExit)
  \/ runBeforeStop
  \/ stopCleanResolved
  \/ exit
  \/ \E s \in Slots, k \in RunIds, ok \in BOOLEAN : LifeKillDone(s, k, ok)

\* every kill command settles, the hook returns, the runner goes on when the
\* promise it awaits has resolved, and the exit timer fires
SpecStopFair ==
  /\ Init /\ [][NextStop]_vars
  /\ WF_vars(\E s \in Slots, k \in RunIds, ok \in BOOLEAN :
               LifeKillDone(s, k, ok))
  /\ WF_vars(runBeforeStop)
  /\ WF_vars(stopCleanResolved)
  /\ WF_vars(exit)

\* the runner of r1 starts and, in another process, the orchestrator of r2
\* records a pid or a port of its run in the same document
NextShared ==
  \/ \E m \in LeftStores : LeftBehind(m)
  \/ Tick
  \/ start
  \/ startClean
  \/ started
  \/ \E s \in Slots, k \in RunIds, ok \in BOOLEAN : LifeKillDone(s, k, ok)
  \/ \E op \in WriteOps : ProcLoad("p2", op)
  \/ ProcSave("p2")

SpecShared == Init /\ [][NextShared]_vars

(***************************************************************************)
(* Properties of the registry                                              *)
(***************************************************************************)
\* the pids and ports an entry records
PidsOf(e) == {e.list[i].pid : i \in 1..Len(e.list)} \ {0}
PortsOf(e) == {e.list[i].port : i \in 1..Len(e.list)} \ {0}

\* the last step completed a clean() call that loaded a store
CleanDone == ev.fin /\ ~ev.rec.direct /\ ~ev.rec.null

\* C1: saveUsedPort called right after saveUsedPid with the same name and
\* seqId (no cleanup saved the store in between) leaves exactly one record
\* of that name in the run's list, with its pid set and its port the one given
C1_PidThenPortOneRecord ==
  (ev.op = "saveUsedPort" /\ ev.after = "saveUsedPid") =>
    LET list == file.m[ev.id].list
    IN /\ Cardinality(Matches(list, ev.name)) = 1
       /\ \A i \in Matches(list, ev.name) :
            list[i].pid # 0 /\ list[i].port = ev.val

C1_Witness ==
  ev.op = "saveUsedPort" /\ ev.after = "saveUsedPid" /\
  Len(file.m[ev.id].list) = 1

\* C2: from the empty store, whatever saveUsedPid, saveUsedPort and clean
\* calls were made, no run's list holds two records with the same name
C2_UniqueNames ==
  \A id \in RunIds :
    \A i, j \in 1..Len(file.m[id].list) :
      file.m[id].list[i].name = file.m[id].list[j].name => i = j

\* a pid written for a name right after that name's port, in a list of two
C2_Witness ==
  ev.op = "saveUsedPid" /\ ev.after = "saveUsedPort" /\
  Len(file.m[ev.id].list) = 2

\* C3: when cleanTargetCacheItem ends for a run that had an entry, a kill was
\* issued for every pid and for every port of the entry, and the persisted
\* store has no entry for the run
C3_CleanTargetKillsAndRemoves ==
  \A k \in ev.ended :
    ev.rec.loaded[k] # NoEntry =>
      /\ PidsOf(ev.rec.loaded[k]) \subseteq ev.rec.triedPids[k]
      /\ PortsOf(ev.rec.loaded[k]) \subseteq ev.rec.triedPorts[k]
      /\ ~file.blank
      /\ file.m[k] = NoEntry

\* an entry with two records, each with its pid, has been cleaned
C3_Witness ==
  \E k \in ev.ended :
    /\ Len(ev.rec.loaded[k].list) = 2
    /\ Cardinality(ev.rec.triedPids[k]) = 2
    /\ file.m[k] = NoEntry

\* C4: a failed killPids does not stop killPort from being issued, a failed
\* kill does not stop the delete and the save, and no cleanTargetCacheItem
\* (so no clean) ends by raising the failure
C4_KillFailureSwallowed ==
  /\ \A s \in Slots, k \in RunIds : cleans[s].phase[k] # "failed"
  /\ \A k \in RunIds : ev.rec.phase[k] # "failed"
  /\ \A k \in ev.ended :
       /\ ev.rec.pidRes[k] = "fail" =>
            ev.rec.triedPorts[k] = PortsOf(ev.rec.loaded[k])
       /\ (ev.rec.pidRes[k] = "fail" \/ ev.rec.portRes[k] = "fail") =>
            (~file.blank /\ file.m[k] = NoEntry)

\* both kills of one cleanup failed
C4_Witness ==
  \E k \in ev.ended :
    ev.rec.pidRes[k] = "fail" /\ ev.rec.portRes[k] = "fail"

\* C5: a cleanTargetCacheItem call that follows one for the same run, and is
\* given the store that one left, changes nothing in the persisted store,
\* issues no kill and ends at once without raising
C5_CleanTargetIdempotent ==
  [][(ev'.op = "cleanTargetCacheItem" /\
      ev'.after = "cleanTargetCacheItem" /\ ev'.rec.loaded = file.m) =>
       /\ file' = file
       /\ ev'.fin
       /\ ev'.rec.phase[ev'.id] = "done"
       /\ \A k \in RunIds :
            ev'.rec.triedPids[k] = {} /\ ev'.rec.triedPorts[k] = {}]_vars

\* the second of two calls in a row has been made; another run's entry is
\* in the store
C5_Witness ==
  ev.op = "cleanTargetCacheItem" /\ ev.after = "cleanTargetCacheItem" /\
  ev.rec.loaded = file.m /\ file.m # EmptyMap

\* C6: when a clean() call and its sweep have run to completion, every entry
\* that was more than EXPIRE old at the call is gone from the persisted store
\* and a kill was issued for each of its pids and ports; an entry of another
\* run that is EXPIRE old or less when the sweep takes its timestamp is not
\* selected and gets no kill
C6_ExpiredSwept ==
  CleanDone =>
    \A k \in RunIds :
      LET e == ev.rec.loaded[k]
      IN /\ (e # NoEntry /\ ev.rec.t0 - e.t > EXPIRE) =>
              /\ file.m[k] = NoEntry
              /\ PidsOf(e) \subseteq ev.rec.triedPids[k]
              /\ PortsOf(e) \subseteq ev.rec.triedPorts[k]
         /\ (e # NoEntry /\ k # ev.rec.seqId /\ ev.rec.ts - e.t <= EXPIRE) =>
              /\ k \notin ev.rec.sel
              /\ ev.rec.triedPids[k] = {}
              /\ ev.rec.triedPorts[k] = {}

\* a sweep removed the expired entry of another run
C6_Witness ==
  CleanDone /\ \E k \in ev.rec.sel : k # ev.rec.seqId /\ k \in ev.ended

\* C7: when a clean() call and its sweep have run to completion, every entry
\* of another run that was loaded and is younger than EXPIRE when the sweep
\* takes its timestamp is in the persisted store as it was loaded
C7_YoungUntouched ==
  CleanDone =>
    \A k \in RunIds \ {ev.rec.seqId} :
      LET e == ev.rec.loaded[k]
      IN (e # NoEntry /\ ev.rec.ts - e.t < EXPIRE) => file.m[k] = e

\* a clean that saved the store while a young entry of another run was in it
C7_Witness ==
  CleanDone /\ ev.ended # {} /\
  \E k \in RunIds \ {ev.rec.seqId} :
    ev.rec.loaded[k] # NoEntry /\ ev.rec.ts - ev.rec.loaded[k].t < EXPIRE

\* C24 as stated: a kill command that fails never gives the caller of
\* killPids a rejected promise
C24_KillPidsNeverRejects ==
  \A k \in RunIds :
    (ev.op = "killDone" /\ ev.rec.pidOs[k] = "fail") =>
      ev.rec.pidRes[k] # "fail"

\* C24: killPids logs the failure of its kill command and rejects with it;
\* cleanTargetCacheItem, its caller, catches the rejection and goes on to
\* the ports and to the delete. A kill command that exits normally fulfils
\* the promise
C24_KillPidsLogsAndRejects ==
  \A k \in RunIds :
    ev.op = "killDone" =>
      /\ ev.rec.pidOs[k] = "fail" =>
           /\ ev.rec.pidLog[k] = "error"
           /\ ev.rec.pidRes[k] = "fail"
           /\ ev.rec.phase[k] \in {"ports", "done"}
           /\ ev.rec.phase[k] = "ports" => ev.rec.triedPorts[k] # {}
           /\ k \in ev.ended => file.m[k] = NoEntry
      /\ ev.rec.pidOs[k] = "ok" =>
           ev.rec.pidLog[k] = "debug" /\ ev.rec.pidRes[k] = "ok"

\* the kill of an entry's pid failed, and the entry's port is being killed
C24_Witness ==
  \E k \in RunIds :
    /\ ev.op = "killDone"
    /\ ev.rec.pidOs[k] = "fail" /\ ev.rec.pidRes[k] = "fail"
    /\ ev.rec.phase[k] = "ports"

\* C25: cleanTargetCacheItem called for a run that has no entry leaves the
\* document with the entries it had, whether it is given the store or
\* called without it, and issues no kill
C25_NoEntryNoOp ==
  [][(calls' = calls + 1 /\ ev'.op = "cleanTargetCacheItem" /\
      OrEmpty(getCache(file))[ev'.id] = NoEntry) =>
       /\ OrEmpty(getCache(file')) = OrEmpty(getCache(file))
       /\ ev'.rec.triedPids = AllEmpty
       /\ ev'.rec.triedPorts = AllEmpty]_vars

\* the entry new is the entry old with, in the record named name (the first
\* of that name; appended when there is none), the field written by the
\* call set to val and the description to desc, the other field kept, every
\* other record kept in its place, and t set to the time of the call
OnlyRecordChanged(old, new, kind, name, val, desc, t) ==
  LET olds == old.list
      news == new.list
      at == {i \in 1..Len(olds) : olds[i].name = name}
      i0 == IF at = {} THEN Len(olds) + 1
            ELSE CHOOSE i \in at : \A j \in at : i <= j
      kept == IF at = {} THEN 0
              ELSE IF kind = "pid" THEN olds[i0].port ELSE olds[i0].pid
  IN /\ new.t = t
     /\ Len(news) = IF at = {} THEN Len(olds) + 1 ELSE Len(olds)
     /\ \A j \in 1..Len(olds) : j # i0 => news[j] = olds[j]
     /\ news[i0].name = name
     /\ news[i0].description = desc
     /\ news[i0].pid = IF kind = "pid" THEN val ELSE kept
     /\ news[i0].port = IF kind = "port" THEN val ELSE kept

\* C31: saveUsedPid changes only, in the entry of its run, the pid and the
\* description of the record of its name (appended if absent) and the
\* entry's t; the record's port, the other records and their order, and the
\* entries of the other runs stay; saveUsedPort likewise keeps the pid
C31_OnlyTheRecordChanges ==
  [][(calls' = calls + 1 /\ ev'.op \in {"saveUsedPid", "saveUsedPort"}) =>
       LET old == OrEmpty(getCache(file))
           kind == IF ev'.op = "saveUsedPid" THEN "pid" ELSE "port"
           desc == IF kind = "pid" THEN PidDesc ELSE PortDesc
       IN /\ ~file'.blank
          /\ \A k \in RunIds \ {ev'.id} : file'.m[k] = old[k]
          /\ OnlyRecordChanged(old[ev'.id], file'.m[ev'.id], kind,
                               ev'.name, ev'.val, desc, now)]_vars

\* saveUsedPid gave a pid to the second record of an entry, which had a
\* port: the port and the first record are as they were
C31_Witness ==
  /\ ev.op = "saveUsedPid" /\ ev.id = "r1" /\ ev.name = "whistle-start"
  /\ ev.was >= 0
  /\ Len(file.m["r1"].list) = 2
  /\ file.m["r1"].list[1] = Item("mockstar-start", 0, 9420, PortDesc)
  /\ file.m["r1"].list[2] = Item("whistle-start", 2, 9421, PidDesc)

(***************************************************************************)
(* Properties of the retry poller                                          *)
(***************************************************************************)
\* positions of the predicate evaluations in the log
Evals == {i \in 1..Len(poll.log) : poll.log[i].k = "eval"}

\* the log is evaluation, wait, evaluation, ... with every wait ms long
Alternates(ms) ==
  \A i \in 1..Len(poll.log) :
    IF i % 2 = 1 THEN poll.log[i].k = "eval"
    ELSE poll.log[i].k = "wait" /\ poll.log[i].v = ms

\* a successful evaluation is the last thing that happened and resolved the
\* call, so the first one did it without a timer
ResolvesAtFirstSuccess ==
  /\ \A i \in Evals : poll.log[i].v = 1 =>
       (i = Len(poll.log) /\ poll.pc = "resolved")
  /\ poll.pc = "resolved" =>
       (Len(poll.log) > 0 /\ poll.log[Len(poll.log)].k = "eval" /\
        poll.log[Len(poll.log)].v = 1)

\* C8: with retryLimit = N >= 0 given and no count given, a call that
\* rejects has evaluated its predicate at most N + 1 times
C8_AtMostNPlusOneEvaluations ==
  (poll.pc = "rejected" /\ poll.given.count = Undef /\
   poll.given.retryLimit # Undef) =>
     poll.evals <= poll.given.retryLimit + 1

\* the same for N >= 1, where the call rejects after exactly N + 1
C8_FromOne ==
  (poll.pc = "rejected" /\ poll.given.count = Undef /\
   poll.given.retryLimit >= 1) =>
     poll.evals = poll.given.retryLimit + 1

\* C9: the call resolves at the first successful evaluation (the first one
\* of all without any timer), and exactly one timer wait of the interval the
\* caller gave (1000 ms when it gave none) separates two evaluations
C9_OneWaitOfIntervalMs ==
  /\ ResolvesAtFirstSuccess
  /\ Alternates(IF poll.given.timeout = Undef THEN DefaultTimeout
                ELSE poll.given.timeout)

\* the same with the interval the code uses: 1000 ms also for a given 0
C9_OneWaitOfUsedInterval ==
  /\ ResolvesAtFirstSuccess
  /\ Alternates(Normalise(poll.given).timeout)

\* C19: a call of checkAndWaitURLAvailable or checkAndWaitFileAvailable,
\* whatever its options and however its predicate behaves, eventually
\* resolves or rejects
C19_PollSettles ==
  (poll.pc = "eval") ~> (poll.pc \in {"resolved", "rejected"})

\* a predicate that never succeeded was given up after the default limit
C19_Witness ==
  /\ poll.pc = "rejected"
  /\ poll.given.retryLimit = Undef
  /\ poll.evals = DefaultRetryLimit + 1
  /\ Len(poll.log) = 2 * DefaultRetryLimit + 1

\* C23 as stated: the rejection's error carries the attempt count
C23_ErrorCarriesCount ==
  poll.pc = "rejected" => poll.err.count = poll.opts.count

\* C23: a failed evaluation with the counter at retryLimit rejects with the
\* error 'retry max'; the attempt count and the limit are in the logged line,
\* not in the error; below the limit the call counts up and waits
C23_RejectsWithRetryMax ==
  /\ poll.pc = "rejected" =>
       /\ poll.err = RetryMaxError
       /\ poll.err.count = Undef
       /\ poll.logged = RetryMaxLine(poll.opts)
       /\ poll.opts.count >= poll.opts.retryLimit
       /\ poll.log[Len(poll.log)] = [k |-> "eval", v |-> 0]
  /\ poll.pc = "timer" =>
       /\ poll.opts.count <= poll.opts.retryLimit
       /\ poll.err = NoMessage

\* a call with retryLimit 2 rejects at its third failed evaluation
C23_Witness ==
  /\ poll.pc = "rejected"
  /\ poll.given.retryLimit = 2 /\ poll.given.count = Undef
  /\ poll.evals = 3
  /\ poll.logged.count = 2

(***************************************************************************)
(* Properties of the port allocator                                        *)
(***************************************************************************)
\* C10: the port findAvailablePort returns is not in the skip list, was not
\* found occupied by a probe of this call, and is at or after the start port
C10_FoundPortFreeNotSkipped ==
  scan.pc = "returned" =>
    /\ scan.ret \notin scan.skipList
    /\ scan.ret \notin scan.occupied
    /\ scan.ret >= scan.port

\* a port was returned after a skipped one and an occupied one
C10_Witness ==
  /\ scan.pc = "returned"
  /\ scan.occupied # {}
  /\ \E q \in scan.skipList : scan.start <= q /\ q < scan.ret

(***************************************************************************)
(* Properties of the run identifier                                        *)
(***************************************************************************)
\* the identifier made last
MadeLast == {r \in {made.last} : r.by # "none"}

\* the truncated base64 encoding an identifier was made from
Encoded(r) == getBase64(r.outputPath, 6)

\* C11: no identifier contains '='; in development mode it is "dev", else it
\* is the truncated base64 encoding of the path with 'd' at each place of a
\* '=', followed by the digits of the timestamp
C11_NoEqualsInSeqId ==
  \A r \in MadeLast :
    /\ \A i \in 1..Len(r.seqId) : r.seqId[i] # "="
    /\ r.isDev => r.seqId = <<"d", "e", "v">>
    /\ ~r.isDev =>
         /\ Len(r.seqId) = Len(Encoded(r)) + Len(Digits(r.t))
         /\ \A i \in 1..Len(Encoded(r)) :
              r.seqId[i] = IF Encoded(r)[i] = "=" THEN "d" ELSE Encoded(r)[i]
         /\ SubSeq(r.seqId, Len(Encoded(r)) + 1, Len(r.seqId)) = Digits(r.t)

\* an identifier made from an encoding that was cut to six characters and
\* ends with two '=', at a time of two digits
C11_Witness ==
  /\ ~made.last.isDev
  /\ made.last.by = "getSeqId"
  /\ Len(made.last.outputPath) = 4
  /\ Encoded(made.last)[5] = "=" /\ Encoded(made.last)[6] = "="
  /\ made.last.t >= 10

\* C12: a runner constructed in non-development mode after another one
\* constructed in non-development mode has a run identifier different from
\* that one's
C12_DistinctSeqIds ==
  [][(made.last.by = "constructor" /\ made'.last.by = "constructor" /\
      made'.turn # made.turn /\ ~made.last.isDev /\ ~made'.last.isDev) =>
        made'.last.seqId # made.last.seqId]_vars

(***************************************************************************)
(* Properties of the E2ERunner methods                                     *)
(***************************************************************************)
\* the run's entry has a record of that name with that pid
PidRecorded(seqId, name, pid) ==
  \E i \in 1..Len(file.m[seqId].list) :
    file.m[seqId].list[i].name = name /\ file.m[seqId].list[i].pid = pid

\* the run's entry has a record of that name with that port
PortRecorded(seqId, name, port) ==
  \E i \in 1..Len(file.m[seqId].list) :
    file.m[seqId].list[i].name = name /\ file.m[seqId].list[i].port = port

\* C13: in every state in which runByExec has launched a process, also
\* while it waits for readiness and after the wait failed, the process's
\* pid is in the store under its name and the run's identifier
C13_PidRecordedOnceLaunched ==
  \A l \in flow.launched : PidRecorded(flow.seqId, l[1], l[2])

\* C14: a port that a method got from findAvailablePort is none of the
\* ports the registry recorded when the method asked for it
C14_AllocatedPortNotClaimed ==
  (flow.alloc /\ flow.port.kind = "number") => flow.port.num \notin flow.claimed

\* the number a port value stands for
ValueOf(v) == IF v.kind = "number" THEN v.num ELSE parseInt(v.str)

\* the method returned with its override set and a port requested as well
OverrideCase == flow.pc = "returned" /\ Truthy(flow.env)

\* the port the method ran its command with, recorded and returned is port
UsedRecordedReturned(port) ==
  /\ flow.cmdPort.kind = "number" /\ flow.cmdPort.num = port
  /\ PortRecorded(flow.seqId, NameOf(flow.method), port)
  /\ flow.ret.kind = "number" /\ flow.ret.num = port

\* C17: a method that returns with its environment override set has not
\* invoked the allocator, and the port it ran its command with, recorded
\* and returned is the override's value
C17_OverrideUsedRecordedReturned ==
  OverrideCase =>
    /\ ~flow.alloc
    /\ UsedRecordedReturned(parseInt(flow.env.str))

\* the same, with buildProject taken in usePort mode; without usePort it
\* returns the override as it is, records nothing and gives its command no
\* port
C17_OverrideWhenPortClaimed ==
  OverrideCase =>
    /\ ~flow.alloc
    /\ (flow.method = "buildProject" /\ ~flow.usePort) =>
         /\ flow.ret = flow.env
         /\ flow.cmdPort = Undefined
         /\ file.m[flow.seqId].list =
              <<Item("project-build", PidOf("project-build"), 0, PidDesc)>>
    /\ (flow.method # "buildProject" \/ flow.usePort) =>
         UsedRecordedReturned(parseInt(flow.env.str))

\* startWhistle returned the override although another port was requested
C17_Witness ==
  /\ OverrideCase
  /\ flow.method = "startWhistle"
  /\ Truthy(flow.optsPort)
  /\ ValueOf(flow.optsPort) # ValueOf(flow.env)
  /\ flow.killed = {ValueOf(flow.env)}

\* a port is requested: by the environment override or by the options
PortRequested == Truthy(flow.env) \/ Truthy(flow.optsPort)

\* the requested port: the override goes first
RequestedPort ==
  IF Truthy(flow.env) THEN ValueOf(flow.env) ELSE ValueOf(flow.optsPort)

\* the method claims a port: startMockstar, startWhistle, and buildProject
\* with usePort
Claims == flow.method # "buildProject" \/ flow.usePort

\* the method's command is spawned only after an event a
SpawnedAfter(a) ==
  \A j \in 1..Len(flow.order) :
    flow.order[j] = NameOf(flow.method) =>
      \E i \in 1..(j - 1) : flow.order[i] = a

\* the kill of the requested port has settled before the command is
\* spawned, and the port is the one recorded once saveUsedPort has run
KilledThenSpawnedAndRecorded ==
  /\ flow.killed = {RequestedPort}
  /\ SpawnedAfter("killed")
  /\ (\E i \in 1..Len(flow.order) : flow.order[i] = "record") =>
       PortRecorded(flow.seqId, NameOf(flow.method), RequestedPort)
  /\ flow.pc = "returned" =>
       PortRecorded(flow.seqId, NameOf(flow.method), RequestedPort)

\* C26 as stated: whenever a port is requested, it is killed before the
\* command is spawned and it is the port recorded; the allocator runs only
\* when none is requested
C26_RequestedPortKilledFirst ==
  flow.pc # "idle" =>
    /\ flow.alloc => ~PortRequested
    /\ PortRequested => KilledThenSpawnedAndRecorded

\* C26: the same for the methods that claim a port; buildProject without
\* usePort neither kills nor records the requested port, and no method
\* invokes the allocator when a port is requested
C26_ClaimedPortKilledFirst ==
  flow.pc # "idle" =>
    /\ flow.alloc => ~PortRequested
    /\ (~PortRequested /\ Claims) => flow.alloc /\ flow.killed = {}
    /\ (PortRequested /\ Claims) => KilledThenSpawnedAndRecorded
    /\ ~Claims => flow.killed = {} /\ ~flow.alloc /\
                  \A i \in 1..Len(flow.order) : flow.order[i] # "record"

\* startMockstar returned: the port of its options was killed, then the
\* command was spawned, then the port was recorded
C26_Witness ==
  /\ flow.pc = "returned" /\ flow.method = "startMockstar"
  /\ ~Truthy(flow.env) /\ Truthy(flow.optsPort)
  /\ flow.order = <<"kill", "killed", "mockstar-start", "record">>
  /\ PortRecorded(flow.seqId, "mockstar-start", 9421)

(***************************************************************************)
(* Properties of the store                                                 *)
(***************************************************************************)
\* C15 as claimed: saveCache called with null raises an error to its
\* caller and leaves the persisted document as it was
C15_NullSaveRaises ==
  [][(ev'.op = "saveCache" /\ ev'.null) =>
       (ev'.raised /\ file' = file)]_vars

\* C15: saveCache called with null returns without raising (the error is
\* logged) and leaves the persisted document as it was
C15_NullSaveLoggedNotWritten ==
  [][(ev'.op = "saveCache" /\ ev'.null) =>
       (~ev'.raised /\ file' = file)]_vars

\* saveCache was given null while the document held a run's entry
C15_Witness ==
  ev.op = "saveCache" /\ ev.null /\ ~file.blank /\ file.m # EmptyMap

\* C16: when the document is absent, empty or not parsable, no operation
\* raises, getUsedPort returns no port, clean completes at once with no kill
\* issued, and saveUsedPid / saveUsedPort leave a store whose only entry is
\* the run's, with the one new record
C16_UnreadableAsEmptyStore ==
  ev.pre \in Unreadable =>
    /\ ~ev.raised
    /\ ev.op = "getUsedPort" => ev.ports = {}
    /\ ev.op = "clean" =>
         /\ ev.fin
         /\ \A k \in RunIds :
              /\ ev.rec.triedPids[k] = {} /\ ev.rec.triedPorts[k] = {}
              /\ ev.rec.phase[k] = "none"
    /\ ev.op = "saveUsedPid" =>
         /\ ~file.blank
         /\ file.m = [EmptyMap EXCEPT ![ev.id] =
                        [list |-> <<Item(ev.name, ev.val, 0, PidDesc)>>,
                         t |-> now]]
    /\ ev.op = "saveUsedPort" =>
         /\ ~file.blank
         /\ file.m = [EmptyMap EXCEPT ![ev.id] =
                        [list |-> <<Item(ev.name, 0, ev.val, PortDesc)>>,
                         t |-> now]]

\* a port was recorded while the document was not parsable
C16_Witness ==
  ev.pre = "unparsable" /\ ev.op = "saveUsedPort" /\ ~file.blank

BothDone == \A p \in Procs : procs.st[p].pc = "done"

\* the two load-save sequences overlap: the second load came before the
\* first save
Overlap == Len(procs.log) >= 2 /\ procs.log[2][1] = "load"

\* the record the process wrote is in the store under its run
Kept(p) ==
  LET op == procs.st[p].op
  IN IF op.kind = "pid" THEN PidRecorded(RunOf(p), op.name, op.val)
     ELSE PortRecorded(RunOf(p), op.name, op.val)

\* C20: when both calls have returned, the store holds both records if the
\* two load-save sequences did not overlap; if they overlapped it holds the
\* record of the process that saved last and not the other one
C20_LastWriteWins ==
  BothDone =>
    IF Overlap
    THEN /\ Kept(procs.log[4][2])
         /\ ~Kept(procs.log[3][2])
    ELSE \A p \in Procs : Kept(p)

\* both calls returned and the store lacks the record of the first to save
C20_Witness ==
  /\ BothDone
  /\ Overlap
  /\ \E p \in Procs : ~Kept(p) /\ file.m[RunOf(p)] = NoEntry


\* the ports that appear in some record of some entry of the document
PortsIn(f) ==
  IF f.blank THEN {}
  ELSE {q \in Ports : \E k \in RunIds :
          \E i \in 1..Len(f.m[k].list) : f.m[k].list[i].port = q}

\* every value of the array is in it once
EachOnce(array) ==
  \A i, j \in 1..Len(array) : array[i] = array[j] => i = j

\* C22: getUsedPort returns the ports that appear in some record of some
\* entry of the store, each once, returns none for an empty store, and
\* leaves the store as it is
C22_ClaimedPortsExactly ==
  [][(calls' = calls + 1 /\ ev'.op = "getUsedPort") =>
       /\ file' = file
       /\ {ev'.result[i] : i \in 1..Len(ev'.result)} = PortsIn(file)
       /\ EachOnce(ev'.result)
       /\ (\A k \in RunIds : file.m[k] = NoEntry) => ev'.result = <<>>]_vars

\* two runs record the same port, and getUsedPort returns it once
C22_Witness ==
  /\ ev.op = "getUsedPort"
  /\ \A k \in RunIds : 9420 \in PortsOf(file.m[k])
  /\ ev.result = <<9420>>

(***************************************************************************)
(* Properties of E2ERunner.start and E2ERunner.stop                        *)
(***************************************************************************)
StopSteps(skipExit) ==
  IF skipExit THEN <<"snapshot", "hook", "clean", "cleaned", "resolved">>
  ELSE <<"snapshot", "hook", "clean", "cleaned", "exit", "terminated">>

\* an invocation of clean for the run is still at its own entry
OwnCleanPending ==
  \E s \in Slots : cleans[s].live /\ cleans[s].stage = "own" /\
                   cleans[s].seqId = life.seqId

StopInOrder ==
  /\ Len(life.log) <= Len(StopSteps(life.skipExit))
  /\ life.log = SubSeq(StopSteps(life.skipExit), 1, Len(life.log))
  /\ life.pc \in {"exit", "terminated", "resolved"} => ~OwnCleanPending
  /\ life.pc = "exit" => life.timer = ExitDelay
  /\ life.skipExit => life.pc \notin {"exit", "terminated"}
  /\ ~life.skipExit => life.pc # "resolved"

C27_RecordsReachStop ==
  life.pc \in {"stop-clean", "exit", "terminated", "resolved"} =>
    \A r \in life.recs :
      /\ r[1] = "pid" => r[3] \in PidsOf(life.seen)
      /\ r[1] = "port" => r[3] \in PortsOf(life.seen)

\* C28: once clean() has resolved (the invocation is past its own entry),
\* no kill command of the invocation is running and none of its writes is
\* still to come
C28_NothingLeftAtResolve ==
  \A s \in Slots :
    (cleans[s].live /\ ~cleans[s].direct /\ cleans[s].stage = "sweep") =>
      ~Busy(cleans[s])


(***************************************************************************)
(* Properties of two orchestrators on one store                            *)
(***************************************************************************)
\* the step is a saveUsedPid / saveUsedPort call for the run k: by the
\* runner of this process, or the save of the other process
RecordsFor(k) ==
  \/ calls' = calls + 1 /\ ev'.op \in {"saveUsedPid", "saveUsedPort"} /\
     ev'.id = k
  \/ \E p \in Procs : RunOf(p) = k /\ procs.st[p].pc = "loaded" /\
                      procs'.st[p].pc = "done"

\* C29: an entry that a cleanup has just deleted from the document comes
\* back only by a saveUsedPid / saveUsedPort call for its run
C29_DeletedStaysAbsent ==
  [][\A k \in RunIds :
       (k \in ev.ended /\ ~file.blank /\ file.m[k] = NoEntry /\
        file'.m[k] # NoEntry) => RecordsFor(k)]_vars

\* the invocation in slot s issues a kill for a pid or port of the entry k
\* in this step
IssuesKill(s, k) ==
  /\ cleans'[s].live
  /\ \/ ~cleans[s].live
     \/ cleans'[s].triedPids[k] # cleans[s].triedPids[k]
     \/ cleans'[s].triedPorts[k] # cleans[s].triedPorts[k]
  /\ cleans'[s].triedPids[k] \cup cleans'[s].triedPorts[k] # {}

\* C30: a kill that clean(seqId) issues for a pid or port of another run is
\* issued while that run's entry, as the document holds it, is expired
C30_KillsOwnOrExpired ==
  [][\A s \in Slots, k \in RunIds :
       (IssuesKill(s, k) /\ k # cleans'[s].seqId) =>
         /\ file'.m[k] # NoEntry
         /\ Expired(now, file'.m[k].t)]_vars

=============================================================================
